---- MODULE Spec2Model ----
(***************************************************************************)
(* pico-map.py: a two-phase scanner of a linker map report.  Strings are   *)
(* sequences of one-character strings, so that startswith, split and       *)
(* int(x, 16) are computed character by character as Python computes them. *)
(***************************************************************************)
EXTENDS Integers, Sequences, FiniteSets, TLC

\* ---------------------------------------------------------------- bounds
MaxPreLines == 1
MaxCfgLines == 2
MaxBodyLines == 3

\* ------------------------------------------------------- Python strings
\* Python's None; distinct from every string (strings hold single characters)
None == <<"None">>

WhiteSpace == {" ", "\t", "\n", "\r"}

StartsWith(s, p) == Len(s) >= Len(p) /\ SubSeq(s, 1, Len(p)) = p

\* str.strip(chars): drop the leading and the trailing characters in chars
StripChars(s, chars) ==
    LET keep == {i \in 1..Len(s) : s[i] \notin chars}
        lo == CHOOSE i \in keep : \A j \in keep : i <= j
        hi == CHOOSE i \in keep : \A j \in keep : i >= j
    IN  IF keep = {} THEN <<>> ELSE SubSeq(s, lo, hi)

Strip(s) == StripChars(s, WhiteSpace)

\* first index >= i that is past the end or holds no whitespace
SkipWs(s, i) ==
    CHOOSE j \in i..(Len(s) + 1) :
        /\ (j = Len(s) + 1 \/ s[j] \notin WhiteSpace)
        /\ \A k \in i..(j - 1) : s[k] \in WhiteSpace

\* first index >= i that is past the end or holds whitespace
TokEnd(s, i) ==
    CHOOSE j \in i..(Len(s) + 1) :
        /\ (j = Len(s) + 1 \/ s[j] \in WhiteSpace)
        /\ \A k \in i..(j - 1) : s[k] \notin WhiteSpace

RECURSIVE SplitFrom(_, _, _)
SplitFrom(s, i, maxsplit) ==
    LET a == SkipWs(s, i)
    IN  IF a > Len(s) THEN <<>>
        ELSE IF maxsplit = 0 THEN <<SubSeq(s, a, Len(s))>>
        ELSE LET b == TokEnd(s, a)
             IN  <<SubSeq(s, a, b - 1)>> \o SplitFrom(s, b, maxsplit - 1)

\* str.split(None, maxsplit): at most maxsplit + 1 parts, the last one being
\* the rest of the string with its inner and trailing whitespace
Split(s, maxsplit) == SplitFrom(s, 1, maxsplit)

HexLower == <<"0", "1", "2", "3", "4", "5", "6", "7", "8", "9",
              "a", "b", "c", "d", "e", "f">>
HexUpper == <<"0", "1", "2", "3", "4", "5", "6", "7", "8", "9",
              "A", "B", "C", "D", "E", "F">>

IsHexDigit(c) == \E i \in 1..16 : HexLower[i] = c \/ HexUpper[i] = c

HexVal(c) == (CHOOSE i \in 1..16 : HexLower[i] = c \/ HexUpper[i] = c) - 1

\* digits with single underscores between them
DigitsOK(d) ==
    /\ Len(d) > 0
    /\ IsHexDigit(d[1])
    /\ IsHexDigit(d[Len(d)])
    /\ \A i \in 1..Len(d) : IsHexDigit(d[i]) \/ d[i] = "_"
    /\ \A i \in 1..(Len(d) - 1) : ~(d[i] = "_" /\ d[i + 1] = "_")

RECURSIVE DigitsVal(_, _)
DigitsVal(d, acc) ==
    IF d = <<>> THEN acc
    ELSE IF Head(d) = "_" THEN DigitsVal(Tail(d), acc)
    ELSE DigitsVal(Tail(d), acc * 16 + HexVal(Head(d)))

\* int(x, 16): surrounding whitespace, a sign, a 0x prefix and underscores
\* are accepted; ok = FALSE stands for ValueError
Digits(d) ==
    IF DigitsOK(d) THEN [ok |-> TRUE, val |-> DigitsVal(d, 0)]
    ELSE [ok |-> FALSE, val |-> 0]

AfterPrefix(v) == IF Len(v) > 0 /\ v[1] = "_" THEN Digits(Tail(v)) ELSE Digits(v)

Unsigned(u) ==
    IF StartsWith(u, <<"0", "x">>) \/ StartsWith(u, <<"0", "X">>)
    THEN AfterPrefix(SubSeq(u, 3, Len(u)))
    ELSE Digits(u)

Negated(r) == [ok |-> r.ok, val |-> 0 - r.val]

Signed(t) ==
    IF Len(t) > 0 /\ t[1] = "-" THEN Negated(Unsigned(Tail(t)))
    ELSE IF Len(t) > 0 /\ t[1] = "+" THEN Unsigned(Tail(t))
    ELSE Unsigned(t)

Int16(x) == Signed(Strip(x))

\* x in part, for a list of strings
InList(x, part) == \E i \in 1..Len(part) : part[i] = x

\* ------------------------------------------------------------- literals
s_text == <<".", "t", "e", "x", "t">>
s_rodata == <<".", "r", "o", "d", "a", "t", "a">>
s_data == <<".", "d", "a", "t", "a">>
s_bss == <<".", "b", "s", "s">>
s_comment == <<".", "c", "o", "m", "m", "e", "n", "t">>
s_debug == <<".", "d", "e", "b", "u", "g">>
s_ARM_attributes == <<".", "A", "R", "M", ".", "a", "t", "t", "r", "i", "b", "u", "t", "e", "s">>
s_data_image == <<".", "d", "a", "t", "a", "(", "i", "m", "a", "g", "e", ")">>
s_fill == <<"*", "f", "i", "l", "l", "*">>
s_RAM == <<"R", "A", "M">>
s_FLASH == <<"F", "L", "A", "S", "H">>
s_eq == <<"=">>
s_before == <<"b", "e", "f", "o", "r", "e">>
s_MemoryConfiguration ==
    <<"M", "e", "m", "o", "r", "y", " ",
      "C", "o", "n", "f", "i", "g", "u", "r", "a", "t", "i", "o", "n">>
s_LinkerScript ==
    <<"L", "i", "n", "k", "e", "r", " ", "s", "c", "r", "i", "p", "t", " ",
      "a", "n", "d", " ", "m", "e", "m", "o", "r", "y", " ", "m", "a", "p">>
sp == <<" ">>
nl == <<"\n">>
sp16 == <<" ", " ", " ", " ", " ", " ", " ", " ",
          " ", " ", " ", " ", " ", " ", " ", " ">>

\* ------------------------------------------------------------- SrcFile
SrcFile == [code |-> 0, rodata |-> 0, data |-> 0, bss |-> 0, etc |-> 0]

SrcFile_total(ent) == ent.code + ent.rodata + ent.data + ent.bss + ent.etc

\* the add that books every section on `etc`
SrcFile_add_etc(ent, section, size) == [ent EXCEPT !.etc = @ + size]

\* SrcFile.add for a section that is a string (None has no startswith)
SrcFile_add(ent, section, size) ==
    IF StartsWith(section, s_text) THEN [ent EXCEPT !.code = @ + size]
    ELSE IF StartsWith(section, s_rodata) THEN [ent EXCEPT !.rodata = @ + size]
    ELSE IF StartsWith(section, s_data) THEN [ent EXCEPT !.data = @ + size]
    ELSE IF StartsWith(section, s_bss) THEN [ent EXCEPT !.bss = @ + size]
    ELSE IF \/ StartsWith(section, s_comment)
            \/ StartsWith(section, s_debug)
            \/ StartsWith(section, s_ARM_attributes) THEN ent
    ELSE [ent EXCEPT !.etc = @ + size]

\* ---------------------------------------------- dicts (insertion ordered)
\* a dict is the sequence of its items [key, val] in insertion order
Keys(d) == [i \in 1..Len(d) |-> d[i].key]

HasKey(d, k) == \E i \in 1..Len(d) : d[i].key = k

Get(d, k) == d[CHOOSE i \in 1..Len(d) : d[i].key = k].val

Put(d, k, v) ==
    IF HasKey(d, k)
    THEN [i \in 1..Len(d) |-> IF d[i].key = k THEN [key |-> k, val |-> v] ELSE d[i]]
    ELSE Append(d, [key |-> k, val |-> v])

\* -------------------------------------------------------------- Section
Section == [size |-> 0, start |-> 0]

Section_add_overwrite(sec, start, size) == [size |-> size, start |-> start]

Section_add(sec, start, size) == [size |-> sec.size + size, start |-> start]

\* --------------------------------------------------------------- Memory
Memory(name, start, length) ==
    [name |-> name, start |-> start, end |-> start + length - 1,
     total |-> length, use |-> 0, section |-> <<>>]

\* the add that leaves `use` alone
Memory_add_unused(mem, section_name, start, size) ==
    LET sec == IF HasKey(mem.section, section_name)
               THEN Get(mem.section, section_name) ELSE Section
    IN  [mem EXCEPT !.section = Put(@, section_name, Section_add(sec, start, size))]

Memory_add(mem, section_name, start, size) ==
    LET sec == IF HasKey(mem.section, section_name)
               THEN Get(mem.section, section_name) ELSE Section
    IN  [mem EXCEPT !.section = Put(@, section_name, Section_add(sec, start, size)),
                    !.use = @ + size]

\* ------------------------------------------------------------ functions
\* the first region of that name, or None
find_mem(ml, name) ==
    IF \E i \in 1..Len(ml) : ml[i].name = name
    THEN ml[CHOOSE i \in 1..Len(ml) :
                ml[i].name = name /\ \A j \in 1..(i - 1) : ml[j].name # name]
    ELSE None

Contains(mem, start, size) == start >= mem.start /\ (start + size - 1) <= mem.end

\* the scan that goes on behind the first region holding the range
add_section_to_mem_all(ml, section, start, size) ==
    [i \in 1..Len(ml) |->
        IF Contains(ml[i], start, size)
        THEN Memory_add(ml[i], section, start, size) ELSE ml[i]]

\* the first region holding the whole range receives it; no region, no change
add_section_to_mem(ml, section, start, size) ==
    IF \E i \in 1..Len(ml) : Contains(ml[i], start, size)
    THEN LET i == CHOOSE k \in 1..Len(ml) :
                      /\ Contains(ml[k], start, size)
                      /\ \A j \in 1..(k - 1) : ~Contains(ml[j], start, size)
         IN  [ml EXCEPT ![i] = Memory_add(@, section, start, size)]
    ELSE ml

\* stable ascending sort (list.sort(key = ...)): each element goes behind the
\* elements already placed whose key is not greater
InsertStable(sorted, x, f) ==
    LET k == Cardinality({i \in 1..Len(sorted) : f[sorted[i]] <= f[x]})
    IN  SubSeq(sorted, 1, k) \o <<x>> \o SubSeq(sorted, k + 1, Len(sorted))

RECURSIVE list_sort(_, _)
list_sort(seq, f) ==
    IF seq = <<>> THEN <<>>
    ELSE InsertStable(list_sort(SubSeq(seq, 1, Len(seq) - 1), f), seq[Len(seq)], f)

\* --------------------------------------------------------------- inputs
h0 == <<"0", "x", "0">>
h1 == <<"0", "x", "1">>
h4 == <<"0", "x", "4">>
h8 == <<"0", "x", "8">>
h10 == <<"0", "x", "1", "0">>
h18 == <<"0", "x", "1", "8">>
h20 == <<"0", "x", "2", "0">>
h40 == <<"0", "x", "4", "0">>
h50 == <<"0", "x", "5", "0">>
h70 == <<"0", "x", "7", "0">>
hff == <<"0", "x", "f", "f">>
zz == <<"z", "z">>
a_o == <<"a", ".", "o">>
b_o == <<"b", ".", "o">>
s_default == <<"*", "d", "e", "f", "a", "u", "l", "t", "*">>
s_ONE == <<"O", "N", "E">>
s_Name == <<"N", "a", "m", "e">>
s_Origin == <<"O", "r", "i", "g", "i", "n">>
s_Length == <<"L", "e", "n", "g", "t", "h">>
s_LOAD == <<"L", "O", "A", "D">>
s_long == <<".", "t", "e", "x", "t", ".", "l", "o", "n", "g", "_", "n", "a", "m", "e">>

\* lines in front of the region table
l_MemoryConfiguration == s_MemoryConfiguration \o nl
l_blank == nl
PreLines == {l_MemoryConfiguration, l_blank}

\* lines of the region table
c_FLASH == s_FLASH \o sp \o h10 \o sp \o h40 \o sp \o <<"x", "r">> \o nl
c_RAM == s_RAM \o sp \o h50 \o sp \o h20 \o sp \o <<"x", "r", "w">> \o nl
c_default == s_default \o sp \o h0 \o sp \o hff \o nl
c_ONE == s_ONE \o sp \o h70 \o sp \o h1 \o nl
c_header == s_Name \o sp \o s_Origin \o sp \o s_Length \o nl
c_two == s_FLASH \o sp \o h10 \o nl
c_badlen == s_RAM \o sp \o h50 \o sp \o zz \o nl
l_LinkerScript == s_LinkerScript \o nl
CfgLines == {c_FLASH, c_RAM, c_default, c_ONE, c_header, c_two, c_badlen, l_blank,
             l_LinkerScript}

\* lines of the map body
b_text == s_text \o sp \o h10 \o sp \o h20 \o sp \o a_o \o nl
b_data == s_data \o sp \o h50 \o sp \o h8 \o nl
b_debug == s_debug \o sp \o h10 \o sp \o h8 \o nl
b_zero == s_bss \o sp \o h50 \o sp \o h0 \o nl
b_badhex == s_bss \o sp \o zz \o sp \o h4 \o nl
a_text == sp \o s_text \o sp \o h10 \o sp \o h8 \o sp \o a_o \o nl
a_data == sp \o s_data \o sp \o h50 \o sp \o h4 \o sp \o b_o \o nl
a_three == sp \o s_text \o sp \o h10 \o sp \o h8 \o nl
a_frag == sp \o s_long \o nl
a_cont == sp16 \o h10 \o sp \o h8 \o sp \o a_o \o nl
a_short == sp \o s_text \o nl
a_blank == sp16 \o nl
f_ok == sp \o s_fill \o sp \o h18 \o sp \o h4 \o nl
f_bad == sp \o s_fill \o sp \o h18 \o sp \o zz \o nl
o_LOAD == s_LOAD \o sp \o a_o \o nl
BodyLines == {b_text, b_data, b_debug, b_zero, b_badhex, a_text, a_data, a_three,
              a_frag, a_cont, a_short, a_blank, f_ok, f_bad, o_LOAD}

\* the flags argparse stores; no flag at all is the default (total)
NoFlag == [total |-> FALSE, code |-> FALSE, bss |-> FALSE, data |-> FALSE, rodata |-> FALSE]
ArgSets == {NoFlag,
            [NoFlag EXCEPT !.total = TRUE], [NoFlag EXCEPT !.code = TRUE],
            [NoFlag EXCEPT !.bss = TRUE], [NoFlag EXCEPT !.data = TRUE],
            [NoFlag EXCEPT !.rodata = TRUE],
            [NoFlag EXCEPT !.data = TRUE, !.code = TRUE]}

\* ---------------------------------------------------------------- state
VARIABLES
    pc,          \* where main() stands
    nread,       \* lines read in the current loop
    line,        \* the local `line`
    mem_list,    \* the global list of Memory
    file_list,   \* the global dict of SrcFile
    cur_sec,     \* the local `cur_sec`
    split_line,  \* the local `split_line`
    args,        \* the argparse namespace
    sources,     \* the local `sources`
    exc          \* the exception that ended the run, "" while none

vars == <<pc, nread, line, mem_list, file_list, cur_sec, split_line, args, sources, exc>>

Init ==
    /\ pc = "seek"
    /\ nread = 0
    /\ line = None
    /\ mem_list = <<>>
    /\ file_list = <<>>
    /\ cur_sec = None
    /\ split_line = None
    /\ args = None
    /\ sources = None
    /\ exc = ""

Running == exc = ""

\* ------------------------------------------- advance to the region table
SeekLine ==
    /\ Running /\ pc = "seek" /\ nread < MaxPreLines
    /\ \E raw \in PreLines :
        /\ line' = raw
        /\ IF Strip(raw) = s_MemoryConfiguration
           THEN pc' = "config" /\ nread' = 0
           ELSE pc' = pc /\ nread' = nread + 1
    /\ UNCHANGED <<mem_list, file_list, cur_sec, split_line, args, sources, exc>>

\* the file ends: every later loop over the exhausted iterator is skipped
EndOfFile ==
    /\ Running /\ pc \in {"seek", "config", "body"}
    /\ pc' = "reconcile"
    /\ nread' = 0
    /\ UNCHANGED <<line, mem_list, file_list, cur_sec, split_line, args, sources, exc>>

\* ------------------------------------------------- "Memory Configuration"
\* exclude '*default*'
Excluded_never(name) == FALSE

Excluded(name) == StartsWith(name, <<"*">>)

\* the pass that puts the new region in front of the list
ParseConfig_front(ml, raw) ==
    LET l == StripChars(raw, {"\n"})
        part == Split(l, 4)
        start == Int16(part[2])
        length == Int16(part[3])
    IN  IF Len(part) < 3 THEN ml
        ELSE IF ~start.ok \/ ~length.ok THEN ml
        ELSE IF ~Excluded(part[1])
             THEN <<Memory(part[1], start.val, length.val)>> \o ml
             ELSE ml

\* one pass of the loop over the region table, on the list ml
ParseConfig(ml, raw) ==
    LET l == StripChars(raw, {"\n"})
        part == Split(l, 4)
        start == Int16(part[2])
        length == Int16(part[3])
    IN  IF Len(part) < 3 THEN ml
        ELSE IF ~start.ok \/ ~length.ok THEN ml
        ELSE IF ~Excluded(part[1])
             THEN Append(ml, Memory(part[1], start.val, length.val))
             ELSE ml

ConfigLine ==
    /\ Running /\ pc = "config"
    /\ \E raw \in CfgLines :
        /\ line' = StripChars(raw, {"\n"})
        /\ IF Strip(line') = s_LinkerScript
           THEN pc' = "body" /\ nread' = 0 /\ mem_list' = mem_list
           ELSE /\ nread < MaxCfgLines
                /\ pc' = pc /\ nread' = nread + 1
                /\ mem_list' = ParseConfig(mem_list, raw)
    /\ UNCHANGED <<file_list, cur_sec, split_line, args, sources, exc>>

\* ------------------------------------------ "Linker script and memory map"
\* the line after the fragment sl, when there is one, was glued in front of it
Glued_never(sl, l) == l

Glued(sl, l) ==
    IF sl # None /\ sl # <<>> /\ StartsWith(l, sp16) THEN sl \o l ELSE l

\* start of section
IsSectionStart_never(l) == FALSE

IsSectionStart(l) == StartsWith(l, <<".">>)

\* the prefixes of the lines that are looked at
IsRecognized(l) ==
    \/ StartsWith(l, <<".">>)
    \/ StartsWith(l, <<" ", ".">>)
    \/ StartsWith(l, sp \o s_fill)

\* a record cut off behind its first field
IsFragment(part, l) == Len(part) = 1 /\ Len(l) > 14

IsAllocation(part) ==
    Len(part) >= 3 /\ ~InList(s_eq, part) /\ ~InList(s_before, part)

\* the check that attributes a section of any size
CheckSize_unguarded(ml, l) ==
    LET part == Split(l, 3)
        start == Int16(part[2])
        size == Int16(part[3])
    IN  IF ~(StartsWith(l, <<".">>) /\ Len(part) >= 3)
        THEN [exc |-> "", mem_list |-> ml]
        ELSE IF ~start.ok \/ ~size.ok
        THEN [exc |-> "ValueError", mem_list |-> ml]
        ELSE [exc |-> "", mem_list |-> add_section_to_mem(ml, part[1], start.val, size.val)]

\* check section size: the registry behind it, or the exception of int()
CheckSize(ml, l) ==
    LET part == Split(l, 3)
        start == Int16(part[2])
        size == Int16(part[3])
    IN  IF ~(StartsWith(l, <<".">>) /\ Len(part) >= 3)
        THEN [exc |-> "", mem_list |-> ml]
        ELSE IF ~start.ok \/ ~size.ok
        THEN [exc |-> "ValueError", mem_list |-> ml]
        ELSE IF size.val > 0
        THEN [exc |-> "", mem_list |-> add_section_to_mem(ml, part[1], start.val, size.val)]
        ELSE [exc |-> "", mem_list |-> ml]

\* source and size of an allocation record; ok = FALSE stands for ValueError
Record(part) ==
    IF part[1] = s_fill
    THEN [ok |-> Int16(part[Len(part)]).ok,
          source |-> part[1],
          size |-> Int16(part[Len(part)]).val]
    ELSE [ok |-> Int16(part[Len(part) - 1]).ok /\ Int16(part[Len(part) - 2]).ok,
          source |-> part[Len(part)],
          size |-> Int16(part[Len(part) - 1]).val]

\* the account of source is made when missing and then takes the size
Account(fl, cs, source, size) ==
    LET fl1 == IF HasKey(fl, source) THEN fl ELSE Put(fl, source, SrcFile)
    IN  IF cs = None
        THEN [file_list |-> fl1, exc |-> "AttributeError"]
        ELSE [file_list |-> Put(fl1, source, SrcFile_add(Get(fl1, source), cs, size)),
              exc |-> ""]

Booked(same, rec) ==
    IF ~rec.ok THEN [same EXCEPT !.exc = "ValueError"]
    ELSE [same EXCEPT
            !.file_list = Account(same.file_list, same.cur_sec, rec.source, rec.size).file_list,
            !.exc = Account(same.file_list, same.cur_sec, rec.source, rec.size).exc]

\* sections, fragments, allocations and fills, on the glued line l
Classified(same, part, l) ==
    IF ~IsRecognized(l) THEN same
    ELSE IF IsSectionStart(l) THEN [same EXCEPT !.cur_sec = part[1]]
    ELSE IF IsFragment(part, l) THEN [same EXCEPT !.split_line = l]
    ELSE IF IsAllocation(part) THEN Booked(same, Record(part))
    ELSE same

\* behind the size check: its exception ends the pass, else the fragment is
\* used up and the glued line l1 is classified
Dispatched(checked, st, l1) ==
    IF checked.exc # "" THEN [st EXCEPT !.exc = checked.exc]
    ELSE Classified(
            [st EXCEPT !.mem_list = checked.mem_list,
                       !.split_line = IF @ # None /\ @ # <<>> THEN None ELSE @,
                       !.line = l1],
            Split(l1, 3), l1)

ParseLine(ml, fl, cs, sl, l) ==
    Dispatched(CheckSize(ml, l),
               [mem_list |-> ml, file_list |-> fl, cur_sec |-> cs,
                split_line |-> sl, line |-> l, exc |-> ""],
               Glued(sl, l))

\* one pass of the loop over the map body, from the tables ml and fl, the
\* section cs and the fragment sl; exc names the exception that ends the run
ParseBody(ml, fl, cs, sl, raw) == ParseLine(ml, fl, cs, sl, StripChars(raw, {"\n"}))

BodyLine ==
    /\ Running /\ pc = "body" /\ nread < MaxBodyLines
    /\ \E raw \in BodyLines :
        \E r \in {ParseBody(mem_list, file_list, cur_sec, split_line, raw)} :
            /\ mem_list' = r.mem_list
            /\ file_list' = r.file_list
            /\ cur_sec' = r.cur_sec
            /\ split_line' = r.split_line
            /\ line' = r.line
            /\ exc' = r.exc
    /\ nread' = nread + 1
    /\ UNCHANGED <<pc, args, sources>>

\* ------------------------------- append '.data' section to the FLASH area
\* the try block; every exception in it is swallowed and leaves ml as it is
Reconciled(ml) ==
    LET ram == find_mem(ml, s_RAM)
        rom == find_mem(ml, s_FLASH)
    IN  IF ~(\E i \in 1..Len(ml) : ml[i].name = s_RAM) THEN ml
        ELSE IF ~HasKey(ram.section, s_data) THEN ml
        ELSE IF ~(\E i \in 1..Len(ml) : ml[i].name = s_FLASH) THEN ml
        ELSE add_section_to_mem(ml, s_data_image, rom.start + rom.use,
                                Get(ram.section, s_data).size)

Reconcile ==
    /\ Running /\ pc = "reconcile"
    /\ mem_list' = Reconciled(mem_list)
    /\ pc' = "sort"
    /\ UNCHANGED <<nread, line, file_list, cur_sec, split_line, args, sources, exc>>

\* ------------------------------------------------------- sorting option
\* the value of one counter for every key of the table
Column(fl, col) ==
    [k \in {fl[i].key : i \in 1..Len(fl)} |->
        CASE col = "code" -> Get(fl, k).code
          [] col = "bss" -> Get(fl, k).bss
          [] col = "rodata" -> Get(fl, k).rodata
          [] col = "data" -> Get(fl, k).data
          [] col = "total" -> SrcFile_total(Get(fl, k))]

Sorted(fl, a) ==
    IF a.code THEN list_sort(Keys(fl), Column(fl, "code"))
    ELSE IF a.bss THEN list_sort(Keys(fl), Column(fl, "bss"))
    ELSE IF a.rodata THEN list_sort(Keys(fl), Column(fl, "rodata"))
    ELSE IF a.data THEN list_sort(Keys(fl), Column(fl, "data"))
    ELSE Keys(fl)

\* the flags were parsed before the file was opened; they are drawn here,
\* where main() reads them for the first time
Sort ==
    /\ Running /\ pc = "sort"
    /\ \E a \in ArgSets :
        /\ args' = a
        /\ sources' = Sorted(file_list, a)
    /\ pc' = "print_file"
    /\ UNCHANGED <<nread, line, mem_list, file_list, cur_sec, split_line, exc>>

\* ------------------------------------------------------------ print out
PrintFile ==
    /\ Running /\ pc = "print_file"
    /\ pc' = "print_mem"
    /\ UNCHANGED <<nread, line, mem_list, file_list, cur_sec, split_line, args, sources, exc>>

\* Ratio is mem.use * 100 / (mem.end - mem.start)
PrintMemory ==
    /\ Running /\ pc = "print_mem"
    /\ IF \E i \in 1..Len(mem_list) : mem_list[i].end - mem_list[i].start = 0
       THEN exc' = "ZeroDivisionError" /\ pc' = pc
       ELSE exc' = exc /\ pc' = "print_sector"
    /\ UNCHANGED <<nread, line, mem_list, file_list, cur_sec, split_line, args, sources>>

\* the share of a section is sect.size * 100 / mem.use
PrintSector ==
    /\ Running /\ pc = "print_sector"
    /\ IF \E i \in 1..Len(mem_list) :
            Len(mem_list[i].section) > 0 /\ mem_list[i].use = 0
       THEN exc' = "ZeroDivisionError" /\ pc' = pc
       ELSE exc' = exc /\ pc' = "done"
    /\ UNCHANGED <<nread, line, mem_list, file_list, cur_sec, split_line, args, sources>>

Next ==
    \/ SeekLine
    \/ EndOfFile
    \/ ConfigLine
    \/ BodyLine
    \/ Reconcile
    \/ Sort
    \/ PrintFile
    \/ PrintMemory
    \/ PrintSector

Spec == Init /\ [][Next]_vars

\* =============================================================== claims
RECURSIVE SumTotals(_)
SumTotals(fl) ==
    IF fl = <<>> THEN 0 ELSE SrcFile_total(Head(fl).val) + SumTotals(Tail(fl))

RECURSIVE SumUsed(_)
SumUsed(ml) == IF ml = <<>> THEN 0 ELSE Head(ml).use + SumUsed(Tail(ml))

\* the size held for section sec by region mem, 0 when it holds none
PlacementSize(mem, sec) ==
    IF HasKey(mem.section, sec) THEN Get(mem.section, sec).size ELSE 0

\* the counter `code` of the account of source, 0 when there is no account
CodeOf(fl, source) == IF HasKey(fl, source) THEN Get(fl, source).code ELSE 0

\* the first region that holds the whole range, 0 when none does
FirstHolder(ml, start, size) ==
    IF \E i \in 1..Len(ml) : Contains(ml[i], start, size)
    THEN CHOOSE i \in 1..Len(ml) :
            /\ Contains(ml[i], start, size)
            /\ \A j \in 1..(i - 1) : ~Contains(ml[j], start, size)
    ELSE 0

\* a pass of the body loop that did not end the run
BodyPass == pc = "body" /\ pc' = "body" /\ nread' = nread + 1

\* C1 (as claimed): once the map body is parsed and the reconciler has not yet
\* run, the totals of all SourceAccounts add up to the used bytes of all regions.
C1_SumsEqualBeforeReconcile ==
    pc = "reconcile" => SumTotals(file_list) = SumUsed(mem_list)

\* C1 (amended): the body parser keeps the two tables apart.  A line that
\* begins with `.` may add to a region and never touches a SourceAccount; any
\* other line may touch a SourceAccount and never a region.
C1_TablesUpdatedApart ==
    [][BodyPass =>
        /\ (mem_list' # mem_list =>
                StartsWith(line', <<".">>) /\ file_list' = file_list)
        /\ (file_list' # file_list =>
                ~StartsWith(line', <<".">>) /\ mem_list' = mem_list)]_vars

C1_Witness ==
    /\ pc = "reconcile"
    /\ SumUsed(mem_list) > 0
    /\ SumTotals(file_list) > 0
    /\ SumTotals(file_list) # SumUsed(mem_list)

\* C2 (as claimed): the line `.text 0x10 0x20 a.o`, whose range lies inside a
\* declared region, adds 0x20 to that region's `.text` Placement and 0x20 to
\* the counter `code` of a.o.
C2_SectionLineFeedsBothTables ==
    [][(BodyPass /\ line' = StripChars(b_text, {"\n"}) /\ exc' = ""
            /\ FirstHolder(mem_list, 16, 32) # 0) =>
        LET i == FirstHolder(mem_list, 16, 32)
        IN  /\ PlacementSize(mem_list'[i], s_text)
                 = PlacementSize(mem_list[i], s_text) + 32
            /\ CodeOf(file_list', a_o) = CodeOf(file_list, a_o) + 32]_vars

\* C2 (amended): the line `.text 0x10 0x20 a.o`, whose range lies inside a
\* declared region, adds 0x20 to that region's `.text` Placement and to its
\* used bytes, makes `.text` the current section, and leaves every
\* SourceAccount as it was.
C2_SectionLineFeedsRegionOnly ==
    [][(BodyPass /\ line' = StripChars(b_text, {"\n"}) /\ exc' = ""
            /\ FirstHolder(mem_list, 16, 32) # 0) =>
        LET i == FirstHolder(mem_list, 16, 32)
        IN  /\ PlacementSize(mem_list'[i], s_text)
                 = PlacementSize(mem_list[i], s_text) + 32
            /\ mem_list'[i].use = mem_list[i].use + 32
            /\ \A j \in 1..Len(mem_list) : j # i => mem_list'[j] = mem_list[j]
            /\ cur_sec' = s_text
            /\ file_list' = file_list]_vars

C2_Witness ==
    /\ pc = "body"
    /\ line = StripChars(b_text, {"\n"})
    /\ Len(mem_list) > 0
    /\ mem_list[1].name = s_FLASH
    /\ PlacementSize(mem_list[1], s_text) = 64
    /\ file_list = <<>>

OneFlag(a) ==
    Cardinality({f \in {"total", "code", "bss", "data", "rodata"} : a[f]}) <= 1

\* the category the flags select: the one flag given, `total` when none is
Selector(a) ==
    IF a.code THEN "code" ELSE IF a.bss THEN "bss"
    ELSE IF a.rodata THEN "rodata" ELSE IF a.data THEN "data" ELSE "total"

IndexOf(seq, x) == CHOOSE i \in 1..Len(seq) : seq[i] = x

\* s lists the keys once each, ascending in f, equal values in key order
StableAscending(s, keys, f) ==
    /\ Len(s) = Len(keys)
    /\ \A i \in 1..Len(keys) : \E j \in 1..Len(s) : s[j] = keys[i]
    /\ \A i, j \in 1..Len(s) : i < j =>
        /\ f[s[i]] <= f[s[j]]
        /\ (f[s[i]] = f[s[j]] => IndexOf(keys, s[i]) < IndexOf(keys, s[j]))

Sorting == pc \in {"print_file", "print_mem", "print_sector", "done"}

\* C3: the per-region utilization of the report never divides by zero, also
\* for a region whose end equals its start, and never ends the run.
C3_RatioNeverDividesByZero ==
    ~(pc = "print_mem" /\ exc = "ZeroDivisionError")

\* C4: for every selector (one flag, or none for `total`) the list handed to
\* the per-file report holds the keys of the table once each, ascending in the
\* selected counter, equal values in first-appearance order.
C4_SourcesSortedBySelector ==
    (Sorting /\ OneFlag(args)) =>
        StableAscending(sources, Keys(file_list),
                        Column(file_list, Selector(args)))

IsFillRow(l) == StartsWith(l, sp \o s_fill) /\ Len(Split(l, 3)) >= 3

\* C5: a `*fill*` row of three tokens or more, whatever its size token,
\* raises no error and is booked on the account `*fill*`.  Stated for the rows
\* that follow a section start, which have a current section to be booked under.
C5_FillRowNeverRaises ==
    (pc = "body" /\ IsFillRow(line) /\ cur_sec # None) =>
        exc = "" /\ HasKey(file_list, s_fill)

\* a record wrapped over two physical lines, and the same record on one line
a_cont_bad == sp16 \o zz \o sp \o h8 \o sp \o a_o \o nl
a_cont_two == sp16 \o h10 \o sp \o h8 \o nl
Wrapped == {<<a_frag, a_cont>>, <<a_frag, a_cont_bad>>, <<a_frag, a_cont_two>>,
            <<a_short, a_cont>>}

Unwrapped(l1, l2) ==
    StripChars(l1, {"\n"}) \o sp \o SubSeq(l2, SkipWs(l2, 1), Len(l2))

\* the first line is what the parser keeps as a fragment: one token of more
\* than 14 characters behind ` .`
LongFirst(l1) ==
    /\ StartsWith(l1, <<" ", ".">>)
    /\ Len(Split(l1, 3)) = 1
    /\ Len(StripChars(l1, {"\n"})) > 14

Parsed(st, raw) ==
    ParseBody(st.mem_list, st.file_list, st.cur_sec, st.split_line, raw)

ParsedTwo(st, l1, l2) ==
    IF Parsed(st, l1).exc # "" THEN Parsed(st, l1) ELSE Parsed(Parsed(st, l1), l2)

SameOutcome(r, q) ==
    /\ r.mem_list = q.mem_list
    /\ r.file_list = q.file_list
    /\ r.cur_sec = q.cur_sec
    /\ r.split_line = q.split_line
    /\ r.exc = q.exc

Here ==
    [mem_list |-> mem_list, file_list |-> file_list, cur_sec |-> cur_sec,
     split_line |-> split_line]

\* C6 (as claimed): in any state of the parser while it reads the map body,
\* any record fed as two physical lines (the rest behind 16 spaces or more)
\* leaves the tables, the current section and the fragment as the same record
\* fed on one line does.  Stated for the states in which a section is open,
\* where no line of the record raises.
C6_AnyWrappedRecordReassembles ==
    (pc = "body" /\ Running /\ nread < MaxBodyLines /\ cur_sec # None) =>
        \A p \in Wrapped :
            SameOutcome(ParsedTwo(Here, p[1], p[2]),
                        Parsed(Here, Unwrapped(p[1], p[2])))

\* C6 (amended): the same, for the records whose first physical line is one
\* token of more than 14 characters behind ` .`, the only lines the parser
\* keeps as a fragment.
C6_LongWrappedRecordReassembles ==
    (pc = "body" /\ Running /\ nread < MaxBodyLines) =>
        \A p \in {q \in Wrapped : LongFirst(q[1])} :
            SameOutcome(ParsedTwo(Here, p[1], p[2]),
                        Parsed(Here, Unwrapped(p[1], p[2])))

C6_Witness ==
    /\ pc = "body" /\ Running
    /\ line = StripChars(a_frag, {"\n"}) \o StripChars(a_cont, {"\n"})
    /\ split_line = None
    /\ CodeOf(file_list, a_o) = 8

HasMem(ml, name) == \E i \in 1..Len(ml) : ml[i].name = name

IndexOfMem(ml, name) ==
    CHOOSE i \in 1..Len(ml) :
        ml[i].name = name /\ \A j \in 1..(i - 1) : ml[j].name # name

\* RAM, its `.data` Placement and FLASH are all there
ImageDue(ml) ==
    /\ HasMem(ml, s_RAM)
    /\ HasKey(find_mem(ml, s_RAM).section, s_data)
    /\ HasMem(ml, s_FLASH)

ReconcilePass == pc = "reconcile" /\ pc' = "sort"

\* C7: whenever RAM holds a `.data` Placement of size S and FLASH has U used
\* bytes, the reconciler gives FLASH a Placement `.data(image)` of size S that
\* starts right behind the used bytes, and FLASH then has U + S used bytes.
C7_ImageAddedToFlash ==
    [][(ReconcilePass /\ ImageDue(mem_list)) =>
        LET S == Get(find_mem(mem_list, s_RAM).section, s_data).size
            rom == find_mem(mem_list, s_FLASH)
            after == mem_list'[IndexOfMem(mem_list, s_FLASH)]
        IN  /\ HasKey(after.section, s_data_image)
            /\ Get(after.section, s_data_image).size = S
            /\ Get(after.section, s_data_image).start = rom.start + rom.use
            /\ after.use = rom.use + S]_vars

\* C8: the reconciler raises no error, changes no SourceAccount and no region
\* other than FLASH, and changes nothing when RAM, FLASH or RAM's `.data`
\* Placement is missing.
C8_ReconcilerTouchesFlashOnly ==
    [][ReconcilePass =>
        /\ exc' = ""
        /\ file_list' = file_list
        /\ Len(mem_list') = Len(mem_list)
        /\ \A i \in 1..Len(mem_list) :
            mem_list[i].name # s_FLASH => mem_list'[i] = mem_list[i]
        /\ (~ImageDue(mem_list) => mem_list' = mem_list)]_vars

\* C9: no region of the registry ever has a name that begins with `*`.
C9_NoStarRegion ==
    \A i \in 1..Len(mem_list) : ~StartsWith(mem_list[i].name, <<"*">>)

C9_Witness ==
    /\ pc = "config"
    /\ line = StripChars(c_default, {"\n"})
    /\ Len(mem_list) = 1
    /\ nread = 2

\* C10: no line of the map body, in no parser state, ends the run: after
\* every pass of the body loop the parser stands ready for the next line.
C10_BodyLineNeverAborts ==
    ~(pc = "body" /\ exc # "")

\* ------------------------------------------------------------------ C11
\* the byte range start .. start+size-1 lies inside the region
InRange(mem, start, size) == mem.start <= start /\ start + size - 1 <= mem.end

\* from ml to ml2, the attribution (sec, start, size) went to the first region
\* in registration order that holds the range and to nothing else
AttributedTo(ml, ml2, sec, start, size) ==
    IF \A i \in 1..Len(ml) : ~InRange(ml[i], start, size)
    THEN ml2 = ml
    ELSE LET i == CHOOSE k \in 1..Len(ml) :
                      /\ InRange(ml[k], start, size)
                      /\ \A j \in 1..(k - 1) : ~InRange(ml[j], start, size)
         IN  /\ Len(ml2) = Len(ml)
             /\ \A j \in 1..Len(ml) : j # i => ml2[j] = ml[j]
             /\ PlacementSize(ml2[i], sec) = PlacementSize(ml[i], sec) + size
             /\ Get(ml2[i].section, sec).start = start
             /\ ml2[i].use = ml[i].use + size
             /\ \A k \in 1..Len(ml[i].section) :
                    ml[i].section[k].key # sec =>
                        ml2[i].section[k] = ml[i].section[k]
             /\ <<ml2[i].name, ml2[i].start, ml2[i].end, ml2[i].total>>
                    = <<ml[i].name, ml[i].start, ml[i].end, ml[i].total>>

\* the section-start lines of the map body that carry a size above 0, with
\* the attribution each of them asks for
SectionRows ==
    {<<b_text, s_text, 16, 32>>, <<b_data, s_data, 80, 8>>, <<b_debug, s_debug, 16, 8>>}

\* C11: every attribution (section-name, start, size), from a section-start
\* line or from the reconciler, goes to the first region in registration order
\* that holds start .. start+size-1: its Placement for the name grows by size
\* and starts at start, its used bytes grow by size, and every other region is
\* as before; when no region holds the range the registry is as before; no
\* error is raised.
C11_FirstHolderTakesAttribution ==
    [][/\ BodyPass =>
            \A a \in SectionRows :
                line' = StripChars(a[1], {"\n"}) =>
                    /\ AttributedTo(mem_list, mem_list', a[2], a[3], a[4])
                    /\ exc' = ""
       /\ (ReconcilePass /\ ImageDue(mem_list)) =>
            /\ AttributedTo(mem_list, mem_list', s_data_image,
                    find_mem(mem_list, s_FLASH).start + find_mem(mem_list, s_FLASH).use,
                    Get(find_mem(mem_list, s_RAM).section, s_data).size)
            /\ exc' = ""]_vars

\* two regions hold the range of `.text 0x10 0x20 a.o`; the first one took it
C11_Witness ==
    /\ pc = "body"
    /\ line = StripChars(b_text, {"\n"})
    /\ Len(mem_list) = 2
    /\ InRange(mem_list[1], 16, 32) /\ InRange(mem_list[2], 16, 32)
    /\ mem_list[1].use = 32
    /\ mem_list[2].use = 0

\* ------------------------------------------------------------------ C12
Ignored(sec) ==
    \/ StartsWith(sec, s_comment)
    \/ StartsWith(sec, s_debug)
    \/ StartsWith(sec, s_ARM_attributes)

\* the counters of source k, all 0 while it has no account
CountersOf(fl, k) == IF HasKey(fl, k) THEN Get(fl, k) ELSE SrcFile

\* C12: the bytes of a section whose name begins with `.comment`, `.debug` or
\* `.ARM.attributes` are counted nowhere: a pass of the body loop over the
\* section-start line of such a section, or over a line that stands under it,
\* changes no counter of any SourceAccount and no region's used bytes or
\* Placements, whatever the regions and the addresses are.
C12_IgnoredSectionCountedNowhere ==
    [][(BodyPass /\ cur_sec' # None /\ Ignored(cur_sec')) =>
        /\ \A i \in 1..Len(file_list') :
            file_list'[i].val = CountersOf(file_list, file_list'[i].key)
        /\ \A i \in 1..Len(mem_list) :
            /\ mem_list'[i].use = mem_list[i].use
            /\ mem_list'[i].section = mem_list[i].section]_vars

\* ------------------------------------------------------------------ C13
\* a pass of the loop over the region table
ConfigPass == pc = "config" /\ pc' = "config" /\ nread' = nread + 1

\* the lines of the region table with fewer than three tokens or with a
\* second or third token that is no hexadecimal integer
SkippedRows == {c_header, c_two, c_badlen, l_blank}

\* the well-formed lines whose name does not begin with `*`: name and origin
AcceptedRows == {<<c_FLASH, s_FLASH, 16>>, <<c_RAM, s_RAM, 80>>, <<c_ONE, s_ONE, 112>>}

\* C13: a line of the region table with fewer than three tokens, or whose
\* second or third token is no hexadecimal integer, leaves the registry as it
\* is and raises no error; a well-formed line whose name does not begin with
\* `*` appends exactly one region behind the regions already listed, so the
\* registry lists those lines in file order.
C13_ConfigSkipsOrAppends ==
    [][ConfigPass =>
        /\ exc' = ""
        /\ \A l \in SkippedRows :
            line' = StripChars(l, {"\n"}) => mem_list' = mem_list
        /\ \A a \in AcceptedRows :
            line' = StripChars(a[1], {"\n"}) =>
                /\ Len(mem_list') = Len(mem_list) + 1
                /\ SubSeq(mem_list', 1, Len(mem_list)) = mem_list
                /\ mem_list'[Len(mem_list')].name = a[2]
                /\ mem_list'[Len(mem_list')].start = a[3]
                /\ mem_list'[Len(mem_list')].use = 0
                /\ mem_list'[Len(mem_list')].section = <<>>]_vars

\* a region was listed and the line `RAM 0x50 zz` behind it was skipped
C13_Witness ==
    /\ pc = "config"
    /\ nread = 2
    /\ line = StripChars(c_badlen, {"\n"})
    /\ Len(mem_list) = 1
    /\ exc = ""

\* ------------------------------------------------------------------ C14
\* accepted lines of the region table: lengths 0x40, 0x1 and 0x0
c_NIL == <<"N", "I", "L">> \o sp \o <<"0", "x", "6", "0">> \o sp \o h0 \o nl
LengthRows == {c_FLASH, c_ONE, c_NIL}

\* C14: every region of the registry has start <= end, for every line the
\* parser of the region table accepts, a line of length 0 among them: from
\* any state of that parser, the registry behind any accepted line is such.
C14_StartNotBehindEnd ==
    (pc = "config" /\ Running) =>
        \A l \in LengthRows :
            \A i \in 1..Len(ParseConfig(mem_list, l)) :
                ParseConfig(mem_list, l)[i].start <= ParseConfig(mem_list, l)[i].end

\* ------------------------------------------------------------------ C15
\* a fragment is pending
Pending(sl) == sl # None /\ sl # <<>>

\* C15: a fragment kept at line i is used up at line i+1 and never later:
\* behind the pass over line i+1 the pending fragment holds no text of line i
\* (it is not line i with line i+1 glued behind it), so line i is never glued
\* to line i+2.
C15_FragmentUsedUpByNextLine ==
    [][(BodyPass /\ Pending(split_line)) =>
        ~(Pending(split_line') /\ StartsWith(split_line', split_line \o sp16))]_vars

\* ------------------------------------------------------------------ C16
\* the allocation records of the map body as the parser sees them (the last
\* one reassembled from two physical lines), with source and size
AllocationRows ==
    {<<StripChars(a_text, {"\n"}), a_o, 8>>,
     <<StripChars(a_data, {"\n"}), b_o, 4>>,
     <<StripChars(f_ok, {"\n"}), s_fill, 4>>,
     <<StripChars(a_frag, {"\n"}) \o StripChars(a_cont, {"\n"}), a_o, 8>>}

\* the classification rule of section names
Classify(sec) ==
    IF StartsWith(sec, s_text) THEN "code"
    ELSE IF StartsWith(sec, s_rodata) THEN "rodata"
    ELSE IF StartsWith(sec, s_data) THEN "data"
    ELSE IF StartsWith(sec, s_bss) THEN "bss"
    ELSE IF Ignored(sec) THEN "ignored"
    ELSE "etc"

Counter == {"code", "rodata", "data", "bss", "etc"}

\* from fl to fl2 the account of source was made if missing, and no other
\* account was made, dropped or changed
OnlyAccount(fl, fl2, source) ==
    /\ Keys(fl2) = IF HasKey(fl, source) THEN Keys(fl) ELSE Append(Keys(fl), source)
    /\ \A i \in 1..Len(fl) : fl[i].key # source => fl2[i] = fl[i]

\* C16 (as claimed): the current section changes only in a pass over a line
\* that begins with `.`; an allocation record changes exactly one counter of
\* the account of its source, the counter of the current section's class, by
\* its size, and leaves every other counter, every other account and the
\* current section as they are.  Stated for the records that follow a section
\* start, which have a current section to be classified.
C16_RecordChangesOneCounter ==
    [][/\ cur_sec' # cur_sec => (BodyPass /\ StartsWith(line', <<".">>))
       /\ (BodyPass /\ cur_sec # None) =>
            \A a \in AllocationRows :
                line' = a[1] =>
                    /\ cur_sec' = cur_sec
                    /\ OnlyAccount(file_list, file_list', a[2])
                    /\ \E c \in Counter :
                        /\ Classify(cur_sec) # "ignored" => c = Classify(cur_sec)
                        /\ Get(file_list', a[2]) =
                            [CountersOf(file_list, a[2]) EXCEPT ![c] = @ + a[3]]]_vars

\* C16 (amended): the same, but under a current section of the ignored class
\* (`.comment`, `.debug`, `.ARM.attributes`) an allocation record changes no
\* counter at all; the account of its source is still made when missing.
C16_RecordChangesCounterOfClass ==
    [][/\ cur_sec' # cur_sec => (BodyPass /\ StartsWith(line', <<".">>))
       /\ (BodyPass /\ cur_sec # None) =>
            \A a \in AllocationRows :
                line' = a[1] =>
                    /\ cur_sec' = cur_sec
                    /\ OnlyAccount(file_list, file_list', a[2])
                    /\ Get(file_list', a[2]) =
                        IF Classify(cur_sec) = "ignored"
                        THEN CountersOf(file_list, a[2])
                        ELSE [CountersOf(file_list, a[2])
                                EXCEPT ![Classify(cur_sec)] = @ + a[3]]]_vars

\* ` .data 0x50 0x4 b.o` was read under `.text`: its 4 bytes are code of b.o
C16_Witness ==
    /\ pc = "body"
    /\ cur_sec = s_text
    /\ line = StripChars(a_data, {"\n"})
    /\ HasKey(file_list, b_o)
    /\ Get(file_list, b_o) = [SrcFile EXCEPT !.code = 4]

\* ------------------------------------------------------------------ C17
\* lines of the map body that carry the token `=` or `before`: as second
\* token, as fourth and last token, and as fifth token of six
a_eq2 == sp \o s_text \o sp \o s_eq \o sp \o h8 \o nl
a_before4 == sp \o s_text \o sp \o h10 \o sp \o h8 \o sp \o s_before \o nl
a_eq5 == sp \o s_text \o sp \o h10 \o sp \o h8 \o sp \o a_o \o sp \o s_eq \o sp \o <<"b">> \o nl
SymbolRows == {a_eq2, a_before4, a_eq5}

\* all the tokens of a line
Tokens(l) == Split(StripChars(l, {"\n"}), Len(l))

\* C17: a line of the map body one of whose tokens is `=` or `before`, at
\* whatever position and among however many tokens, is never taken for an
\* allocation record: from any state of the body parser, the pass over such a
\* line changes no SourceAccount and makes none.  Stated for the states in
\* which a section is open.
C17_SymbolLineIsNoRecord ==
    (pc = "body" /\ Running /\ cur_sec # None) =>
        \A l \in SymbolRows :
            (InList(s_eq, Tokens(l)) \/ InList(s_before, Tokens(l))) =>
                Parsed(Here, l).file_list = file_list

\* ------------------------------------------------------------------ C18
RECURSIVE SumSizes(_)
SumSizes(d) == IF d = <<>> THEN 0 ELSE Head(d).val.size + SumSizes(Tail(d))

\* C18: in every state, behind any section-start lines and behind the
\* reconciler, the used bytes of each region are the sum of the sizes of the
\* Placements of that region.
C18_UsedIsSumOfPlacements ==
    \A i \in 1..Len(mem_list) : mem_list[i].use = SumSizes(mem_list[i].section)

\* behind the reconciler FLASH holds `.text` and `.data(image)`: 0x20 + 0x8
C18_Witness ==
    /\ pc = "sort"
    /\ \E i \in 1..Len(mem_list) :
        /\ mem_list[i].name = s_FLASH
        /\ PlacementSize(mem_list[i], s_text) = 32
        /\ PlacementSize(mem_list[i], s_data_image) = 8
        /\ mem_list[i].use = 40

\* ------------------------------------------------------------------ C19
\* every Placement has a size above 0, so a region with a Placement has used
\* bytes above 0
PlacementsPositive ==
    \A i \in 1..Len(mem_list) :
        /\ \A k \in 1..Len(mem_list[i].section) : mem_list[i].section[k].val.size > 0
        /\ Len(mem_list[i].section) > 0 => mem_list[i].use > 0

\* a step changes a region only by adding bytes to it
UsedOnlyGrows ==
    /\ Len(mem_list') >= Len(mem_list)
    /\ \A i \in 1..Len(mem_list) :
        /\ mem_list'[i].use >= mem_list[i].use
        /\ mem_list'[i] # mem_list[i] => mem_list'[i].use > mem_list[i].use

\* C19: every attribution that reaches a region, from a section-start line or
\* from the reconciler, has a size above 0: in every state each Placement has
\* a size above 0, used bytes never go down, a region that holds a Placement
\* has used bytes above 0, and the per-section share size*100/used of the
\* report never divides by zero.
C19_AttributionsArePositive ==
    /\ [](PlacementsPositive /\ ~(pc = "print_sector" /\ exc = "ZeroDivisionError"))
    /\ [][UsedOnlyGrows]_vars

\* RAM took `.data 0x50 0x8`, not `.bss 0x50 0x0`, and the report was printed
C19_Witness ==
    /\ pc = "done"
    /\ line = StripChars(b_zero, {"\n"})
    /\ \E i \in 1..Len(mem_list) :
        /\ InRange(mem_list[i], 80, 0)
        /\ Keys(mem_list[i].section) = <<s_data>>
        /\ mem_list[i].use = 8

====
